---- MODULE Spec2Model ----
(***************************************************************************)
(* Model of src/app.py: the UV Index Analyzer script (lines 1-142) and the *)
(* TrafficSense dashboard script (lines 143-234).  Each script is run top  *)
(* to bottom once per user interaction (Streamlit rerun); the position in  *)
(* the script is the variable pc (UV app) and t_pc (traffic app).          *)
(*                                                                         *)
(* UV Index values are floats in the program; here they are fixed-point    *)
(* integers counting 1/Unit, so 7.5 is 7*Unit + Unit \div 2.               *)
(***************************************************************************)
EXTENDS Integers, Sequences, FiniteSets, TLC

VARIABLES
    \* ---- UV Index Analyzer ----
    input_method,    \* st.radio value
    uv_data,         \* st.text_area value: its comma-separated tokens ("" is <<>>)
    uploaded_file,   \* st.file_uploader value
    download_clicked,\* st.button("Download Processed Data as CSV") in this run
    pc,              \* position of the script run
    data,            \* the local `data` ('data' in locals() is data.loaded)
    stats,           \* the three st.metric values
    pivot_data,      \* heatmap pivot table
    slider,          \* (min_uv, max_uv) returned by st.slider
    filtered_data,   \* the filtered table
    csv,             \* to_csv result offered for download
    out,             \* what has been rendered in this run, in order
    \* ---- TrafficSense dashboard ----
    t_pc,            \* position of the script run
    trigger,         \* the interaction that caused this run
    city,            \* st.sidebar.text_input value
    alert_threshold, \* st.sidebar.slider value
    traffic_data,    \* the sample DataFrame
    response,        \* the last `response` object
    gets,            \* URLs requested with requests.get in this run, in order
    t_out            \* what has been rendered in this run, in order

uvvars == <<input_method, uv_data, uploaded_file, download_clicked, pc, data,
            stats, pivot_data, slider, filtered_data, csv, out>>
tvars  == <<t_pc, trigger, city, alert_threshold, traffic_data, response, gets, t_out>>
vars   == <<uvvars, tvars>>

----------------------------------------------------------------------------
\* Bounds of the model
Unit     == 2      \* fixed-point resolution: values count 1/Unit
MaxLen   == 3      \* tokens in an edited text area
MaxRows  == 2      \* data rows in an uploaded file
MaxDay   == 0      \* uploaded dates are day 0..MaxDay after the anchor

\* Program constants
AnchorDate    == 0     \* "2023-10-01", dates are day numbers counted from it
HighThreshold == 10
ModerateThreshold == 7
StatusOK      == 200
SliderMin     == 0
SliderMax     == 100
SliderDefault == 70

\* UV values a user may type: -1/Unit, 3, 7, 7 + 1/Unit, 10, 10 + 1/Unit
UVValues == {-1, 3 * Unit, ModerateThreshold * Unit,
             ModerateThreshold * Unit + 1, HighThreshold * Unit,
             HighThreshold * Unit + 1}

\* A token of the text area: a numeric literal (surrounding blanks allowed)
\* or text float() rejects (also the empty token)
NumTok(v) == [num |-> TRUE, val |-> v]
BadTok    == [num |-> FALSE, val |-> 0]
Tokens    == {NumTok(v) : v \in UVValues} \cup {BadTok}

SeqsUpTo(S, n) == UNION {[1..k -> S] : k \in 0..n}

\* default of the text area: "3, 5, 7, 9, 11, 8, 6, 4"
DefaultText == <<NumTok(3 * Unit), NumTok(5 * Unit), NumTok(7 * Unit),
                 NumTok(9 * Unit), NumTok(11 * Unit), NumTok(8 * Unit),
                 NumTok(6 * Unit), NumTok(4 * Unit)>>

Texts == SeqsUpTo(Tokens, MaxLen) \cup {DefaultText}

\* cells of an uploaded CSV
DateCell(d) == [str |-> d]          \* text that parses to day d
BadDay      == -1
DateCells   == {DateCell(d) : d \in 0..MaxDay} \cup {DateCell(BadDay)}
FileValues  == {ModerateThreshold * Unit + 1, HighThreshold * Unit + 1}
ColumnSets  == {{"Date", "UV Index"}, {"Date"}, {"UV Index"}, {"date", "UV Index"}}
RowsOver(cols) == {[c \in cols |-> IF c = "UV Index" THEN v ELSE dc] :
                      dc \in DateCells, v \in FileValues}

NoFile == [present |-> FALSE]
Files  == {[present |-> TRUE, readable |-> FALSE]} \cup
          UNION {{[present |-> TRUE, readable |-> TRUE, columns |-> cols, rows |-> rs] :
                     rs \in SeqsUpTo(RowsOver(cols), MaxRows)} : cols \in ColumnSets}

NoData == [loaded |-> FALSE]
NoStats == [computed |-> FALSE]
NoSlider == <<>>

----------------------------------------------------------------------------
\* Pure helpers of the UV app

\* float(x) for every token, or failure ("ok" FALSE) at the first bad one
ParseFloats(toks) ==
    IF \A i \in 1..Len(toks) : toks[i].num
    THEN [ok |-> TRUE, vals |-> [i \in 1..Len(toks) |-> toks[i].val]]
    ELSE [ok |-> FALSE, vals |-> <<>>]

\* variant of DateRange: the first date is the day after the anchor
DateRangeMut(n) == [i \in 1..n |-> AnchorDate + i]

\* pd.date_range(start="2023-10-01", periods=n, freq="D")
DateRange(n) == [i \in 1..n |-> AnchorDate + (i - 1)]

\* pd.DataFrame({"Date": dates, "UV Index": uv_values})
ParseManual(toks) ==
    LET p == ParseFloats(toks)
        dates == DateRange(Len(p.vals))
    IN [ok |-> p.ok,
        rows |-> [i \in 1..Len(p.vals) |-> [Date |-> dates[i], UV |-> p.vals[i]]]]

\* "Date" not in data.columns or "UV Index" not in data.columns
MissingColumns(cols) == ("Date" \notin cols) \/ ("UV Index" \notin cols)

\* pd.to_datetime(data["Date"]): fails when a cell does not parse
ToDatetimeOK(rows) == \A i \in 1..Len(rows) : rows[i]["Date"].str # BadDay
ToDatetime(rows) ==
    [i \in 1..Len(rows) |-> [Date |-> rows[i]["Date"].str, UV |-> rows[i]["UV Index"]]]

RECURSIVE SumUV(_)
SumUV(rows) == IF rows = <<>> THEN 0 ELSE rows[1].UV + SumUV(Tail(rows))

MaxUV(rows) == CHOOSE m \in {rows[i].UV : i \in 1..Len(rows)} :
                   \A i \in 1..Len(rows) : rows[i].UV <= m
MinUV(rows) == CHOOSE m \in {rows[i].UV : i \in 1..Len(rows)} :
                   \A i \in 1..Len(rows) : rows[i].UV >= m

\* mean(), max(), min() of the "UV Index" column; all three are NaN on an
\* empty column.  The mean is kept exact as sum / n.
Summarize(rows) ==
    IF Len(rows) = 0
    THEN [computed |-> TRUE, nan |-> TRUE]
    ELSE [computed |-> TRUE, nan |-> FALSE,
          sum |-> SumUV(rows), n |-> Len(rows),
          max |-> MaxUV(rows), min |-> MinUV(rows)]

\* pivot_table(index=Date.dt.date, values="UV Index", aggfunc="mean")
PivotByDate(rows) ==
    LET days == {rows[i].Date : i \in 1..Len(rows)}
        On(d) == {i \in 1..Len(rows) : rows[i].Date = d}
        RECURSIVE SumAt(_)
        SumAt(I) == IF I = {} THEN 0
                    ELSE LET i == CHOOSE j \in I : TRUE
                         IN rows[i].UV + SumAt(I \ {i})
    IN [d \in days |-> [sum |-> SumAt(On(d)), n |-> Cardinality(On(d))]]

\* variant of ClassifySeverity: the High comparison is not strict
ClassifySeverityMut(st) ==
    IF ~st.nan /\ st.max >= HighThreshold * Unit THEN "sev_high"
    ELSE IF ~st.nan /\ st.max > ModerateThreshold * Unit THEN "sev_moderate"
    ELSE "sev_low"

\* the if / elif / else of "Insights and Recommendations"; every comparison
\* with NaN is False
ClassifySeverity(st) ==
    IF ~st.nan /\ st.max > HighThreshold * Unit THEN "sev_high"
    ELSE IF ~st.nan /\ st.max > ModerateThreshold * Unit THEN "sev_moderate"
    ELSE "sev_low"

\* int(x): truncation toward zero
IntOf(v) == IF v >= 0 THEN v \div Unit ELSE -((-v) \div Unit)

\* variant of FilterByRange: the upper bound is exclusive
RECURSIVE FilterByRangeMut(_, _, _)
FilterByRangeMut(rows, lo, hi) ==
    IF rows = <<>> THEN <<>>
    ELSE IF rows[1].UV >= lo * Unit /\ rows[1].UV < hi * Unit
         THEN <<rows[1]>> \o FilterByRangeMut(Tail(rows), lo, hi)
         ELSE FilterByRangeMut(Tail(rows), lo, hi)

\* data[(data["UV Index"] >= min_uv) & (data["UV Index"] <= max_uv)]
RECURSIVE FilterByRange(_, _, _)
FilterByRange(rows, lo, hi) ==
    IF rows = <<>> THEN <<>>
    ELSE IF rows[1].UV >= lo * Unit /\ rows[1].UV <= hi * Unit
         THEN <<rows[1]>> \o FilterByRange(Tail(rows), lo, hi)
         ELSE FilterByRange(Tail(rows), lo, hi)

\* filtered_data.to_csv(index=False)
ToCsv(rows) == [header |-> <<"Date", "UV Index">>,
                lines |-> [i \in 1..Len(rows) |-> <<rows[i].Date, rows[i].UV>>]]

----------------------------------------------------------------------------
\* One run of the UV Index Analyzer script

UVLocalsReset ==
    /\ data' = NoData
    /\ stats' = NoStats
    /\ pivot_data' = <<>>
    /\ slider' = NoSlider
    /\ filtered_data' = <<>>
    /\ csv' = [offered |-> FALSE]
    /\ out' = <<>>

UVInit ==
    /\ input_method = "Manual Input"
    /\ uv_data = DefaultText
    /\ uploaded_file = NoFile
    /\ download_clicked = FALSE
    /\ pc = "sidebar"
    /\ data = NoData
    /\ stats = NoStats
    /\ pivot_data = <<>>
    /\ slider = NoSlider
    /\ filtered_data = <<>>
    /\ csv = [offered |-> FALSE]
    /\ out = <<>>

UVFinished == pc \in {"done", "stopped", "crashed"}

\* A user interaction changes one widget and the script reruns from the top
\* with fresh locals.  A widget that was not rendered in the last run comes
\* back with its default value.
Rerun ==
    /\ pc' = "sidebar"
    /\ UVLocalsReset

\* st.radio
ChooseMethod ==
    /\ UVFinished
    /\ \E m \in {"Manual Input", "Upload CSV"} :
          /\ m # input_method
          /\ input_method' = m
    /\ uv_data' = DefaultText
    /\ uploaded_file' = NoFile
    /\ download_clicked' = FALSE
    /\ Rerun
    /\ UNCHANGED tvars

\* st.text_area: the text is cleared, or a token is typed or deleted at its
\* end (every text of at most MaxLen tokens is reached this way)
EditText ==
    /\ UVFinished
    /\ input_method = "Manual Input"
    /\ \/ uv_data' = <<>>
       \/ /\ Len(uv_data) < MaxLen
          /\ \E t \in Tokens : uv_data' = Append(uv_data, t)
       \/ /\ Len(uv_data) \in 1..MaxLen
          /\ uv_data' = SubSeq(uv_data, 1, Len(uv_data) - 1)
    /\ uv_data' # uv_data
    /\ download_clicked' = FALSE
    /\ Rerun
    /\ UNCHANGED <<input_method, uploaded_file>>
    /\ UNCHANGED tvars

\* st.file_uploader: a file is chosen or removed
UploadFile ==
    /\ UVFinished
    /\ input_method = "Upload CSV"
    /\ \E f \in Files \cup {NoFile} :
          /\ f # uploaded_file
          /\ uploaded_file' = f
    /\ download_clicked' = FALSE
    /\ Rerun
    /\ UNCHANGED <<input_method, uv_data>>
    /\ UNCHANGED tvars

\* st.slider of the last run is moved (its new value is read in Filter)
MoveSlider ==
    /\ UVFinished
    /\ slider # NoSlider
    /\ download_clicked' = FALSE
    /\ Rerun
    /\ UNCHANGED <<input_method, uv_data, uploaded_file>>
    /\ UNCHANGED tvars

\* st.button of the last run is pressed
ClickDownload ==
    /\ UVFinished
    /\ pc = "done"
    /\ data.loaded
    /\ download_clicked' = TRUE
    /\ Rerun
    /\ UNCHANGED <<input_method, uv_data, uploaded_file>>
    /\ UNCHANGED tvars

\* lines 43-52
Sidebar ==
    /\ pc = "sidebar"
    /\ out' = IF input_method = "Upload CSV" /\ uploaded_file.present
              THEN Append(out, "upload_success") ELSE out
    /\ pc' = "process"
    /\ UNCHANGED <<input_method, uv_data, uploaded_file, download_clicked, data,
                   stats, pivot_data, slider, filtered_data, csv>>
    /\ UNCHANGED tvars

\* lines 55-63
ProcessManual ==
    /\ pc = "process"
    /\ input_method = "Manual Input"
    /\ IF uv_data = <<>>
       THEN UNCHANGED <<data, out>>
       ELSE LET p == ParseManual(uv_data)
            IN IF p.ok
               THEN /\ data' = [loaded |-> TRUE, converted |-> TRUE, rows |-> p.rows]
                    /\ UNCHANGED out
               ELSE /\ UNCHANGED data
                    /\ out' = Append(out, "error_invalid_input")
    /\ pc' = "display"
    /\ UNCHANGED <<input_method, uv_data, uploaded_file, download_clicked,
                   stats, pivot_data, slider, filtered_data, csv>>
    /\ UNCHANGED tvars

\* variant of Stop: the run goes on after st.stop()
StopMut == pc' = "display"

\* st.stop(): the run ends here
Stop == pc' = "stopped"

\* lines 64-74
ProcessUpload ==
    /\ pc = "process"
    /\ input_method = "Upload CSV"
    /\ IF ~uploaded_file.present
       THEN /\ UNCHANGED <<data, out>>
            /\ pc' = "display"
       ELSE IF ~uploaded_file.readable
       THEN \* pd.read_csv raises: `data` is never bound
            /\ UNCHANGED data
            /\ out' = Append(out, "error_reading_file")
            /\ pc' = "display"
       ELSE IF MissingColumns(uploaded_file.columns)
       THEN /\ data' = [loaded |-> TRUE, converted |-> FALSE,
                        columns |-> uploaded_file.columns, rows |-> uploaded_file.rows]
            /\ out' = Append(out, "error_schema")
            /\ Stop
       ELSE IF ~ToDatetimeOK(uploaded_file.rows)
       THEN \* pd.to_datetime raises after `data` was bound by read_csv
            /\ data' = [loaded |-> TRUE, converted |-> FALSE,
                        columns |-> uploaded_file.columns, rows |-> uploaded_file.rows]
            /\ out' = Append(out, "error_reading_file")
            /\ pc' = "display"
       ELSE /\ data' = [loaded |-> TRUE, converted |-> TRUE,
                        rows |-> ToDatetime(uploaded_file.rows)]
            /\ UNCHANGED out
            /\ pc' = "display"
    /\ UNCHANGED <<input_method, uv_data, uploaded_file, download_clicked,
                   stats, pivot_data, slider, filtered_data, csv>>
    /\ UNCHANGED tvars

\* the "UV Index" column of `data` as rows with a UV field
UVRows(d) == IF d.converted THEN d.rows
             ELSE [i \in 1..Len(d.rows) |-> [UV |-> d.rows[i]["UV Index"]]]

\* lines 77-80
Display ==
    /\ pc = "display"
    /\ IF data.loaded
       THEN /\ out' = Append(out, "preview")
            /\ pc' = "summary"
       ELSE /\ UNCHANGED out
            /\ pc' = "done"
    /\ UNCHANGED <<input_method, uv_data, uploaded_file, download_clicked, data,
                   stats, pivot_data, slider, filtered_data, csv>>
    /\ UNCHANGED tvars

\* lines 83-90
Summary ==
    /\ pc = "summary"
    /\ stats' = Summarize(UVRows(data))
    /\ out' = Append(out, "stats")
    /\ pc' = "charts"
    /\ UNCHANGED <<input_method, uv_data, uploaded_file, download_clicked, data,
                   pivot_data, slider, filtered_data, csv>>
    /\ UNCHANGED tvars

\* lines 93-102
Charts ==
    /\ pc = "charts"
    /\ out' = out \o <<"line_chart", "bar_chart">>
    /\ pc' = "heatmap"
    /\ UNCHANGED <<input_method, uv_data, uploaded_file, download_clicked, data,
                   stats, pivot_data, slider, filtered_data, csv>>
    /\ UNCHANGED tvars

\* lines 104-109: .dt raises on a Date column that was never converted, and
\* sns.heatmap raises on an empty pivot table (min of a zero-size array)
Heatmap ==
    /\ pc = "heatmap"
    /\ IF ~data.converted \/ Len(data.rows) = 0
       THEN /\ pc' = "crashed"
            /\ out' = Append(out, "exception")
            /\ UNCHANGED pivot_data
       ELSE /\ pivot_data' = PivotByDate(data.rows)
            /\ out' = Append(out, "heatmap")
            /\ pc' = "insights"
    /\ UNCHANGED <<input_method, uv_data, uploaded_file, download_clicked, data,
                   stats, slider, filtered_data, csv>>
    /\ UNCHANGED tvars

\* lines 111-118
Insights ==
    /\ pc = "insights"
    /\ out' = Append(out, ClassifySeverity(stats))
    /\ pc' = "filter"
    /\ UNCHANGED <<input_method, uv_data, uploaded_file, download_clicked, data,
                   stats, pivot_data, slider, filtered_data, csv>>
    /\ UNCHANGED tvars

\* lines 122-126: the bounds and the default value of the range slider
SliderBounds(st) == <<IntOf(st.min), IntOf(st.max)>>

\* lines 120-131: the slider returns the default (the bounds) or any range
\* the user selected inside the bounds
Filter ==
    /\ pc = "filter"
    /\ LET b == SliderBounds(stats)
       IN \E lo \in b[1]..b[2], hi \in b[1]..b[2] :
             /\ lo <= hi
             /\ slider' = <<lo, hi>>
             /\ filtered_data' = FilterByRange(data.rows, lo, hi)
    /\ out' = Append(out, "filtered")
    /\ pc' = "download"
    /\ UNCHANGED <<input_method, uv_data, uploaded_file, download_clicked, data,
                   stats, pivot_data, csv>>
    /\ UNCHANGED tvars

\* lines 133-142
Download ==
    /\ pc = "download"
    /\ IF download_clicked
       THEN /\ csv' = [offered |-> TRUE, text |-> ToCsv(filtered_data)]
            /\ out' = Append(out, "download_button")
       ELSE UNCHANGED <<csv, out>>
    /\ pc' = "done"
    /\ UNCHANGED <<input_method, uv_data, uploaded_file, download_clicked, data,
                   stats, pivot_data, slider, filtered_data>>
    /\ UNCHANGED tvars

UVNext ==
    \/ ChooseMethod
    \/ EditText
    \/ UploadFile
    \/ MoveSlider
    \/ ClickDownload
    \/ Sidebar
    \/ ProcessManual
    \/ ProcessUpload
    \/ Display
    \/ Summary
    \/ Charts
    \/ Heatmap
    \/ Insights
    \/ Filter
    \/ Download

----------------------------------------------------------------------------
\* TrafficSense dashboard

\* lines 158-164
SampleTraffic ==
    << [Location |-> "Downtown",      Congestion |-> 75, Accidents |-> 3, Speed |-> 30, Vehicles |-> 500],
       [Location |-> "Airport Road",  Congestion |-> 60, Accidents |-> 2, Speed |-> 45, Vehicles |-> 300],
       [Location |-> "Highway 1",     Congestion |-> 85, Accidents |-> 5, Speed |-> 20, Vehicles |-> 800],
       [Location |-> "Market Street", Congestion |-> 50, Accidents |-> 1, Speed |-> 50, Vehicles |-> 250] >>

Cities == {"San Francisco", "Karachi"}

\* the two request URLs (lines 198 and 224); the city is not part of either
UVUrl      == "current=uv_index"
WeatherUrl == "current=temperature_2m,weathercode"

\* what requests.get can give back: a response with a status and a body that
\* does or does not parse to JSON holding the requested fields
OtherStatuses == {404, 503}
NoResponse == [arrived |-> FALSE]
Responses == {[arrived |-> TRUE, status |-> st, body_ok |-> b, read |-> FALSE] :
                 st \in {StatusOK} \cup OtherStatuses, b \in BOOLEAN}

\* any(traffic_data["Congestion Level"] > alert_threshold)
AnyAbove(td, th) == \E i \in 1..Len(td) : td[i].Congestion > th

\* variant of GetUVIndexPressed: the button reads True in every run
GetUVIndexPressedMut == TRUE

\* st.sidebar.button("Get UV Index"): True only in the run the press caused
GetUVIndexPressed == trigger = "button"

TInit ==
    /\ t_pc = "start"
    /\ trigger = "load"
    /\ city = "San Francisco"
    /\ alert_threshold = SliderDefault
    /\ traffic_data = <<>>
    /\ response = NoResponse
    /\ gets = <<>>
    /\ t_out = <<>>

TFinished == t_pc \in {"done", "crashed"}

\* the threshold slider was rendered in the last run
AlertRendered == \E i \in 1..Len(t_out) :
                    t_out[i] \in {"congestion_warning", "flowing_smoothly"}

\* a widget keeps its value over a rerun only if the last run rendered it
KeptThreshold == IF AlertRendered THEN alert_threshold ELSE SliderDefault

\* the script reruns from the top with fresh locals
TRerun ==
    /\ t_pc' = "start"
    /\ traffic_data' = <<>>
    /\ response' = NoResponse
    /\ gets' = <<>>
    /\ t_out' = <<>>

PressGetUVIndex ==
    /\ TFinished
    /\ trigger' = "button"
    /\ alert_threshold' = KeptThreshold
    /\ TRerun
    /\ UNCHANGED city
    /\ UNCHANGED uvvars

MoveThreshold ==
    /\ TFinished
    /\ AlertRendered
    /\ \E th \in SliderMin..SliderMax :
          /\ th # alert_threshold
          /\ alert_threshold' = th
    /\ trigger' = "slider"
    /\ TRerun
    /\ UNCHANGED city
    /\ UNCHANGED uvvars

EditCity ==
    /\ TFinished
    /\ \E c \in Cities :
          /\ c # city
          /\ city' = c
    /\ trigger' = "text"
    /\ alert_threshold' = KeptThreshold
    /\ TRerun
    /\ UNCHANGED uvvars

\* lines 151-192: the sample table, the three charts and the map
TrafficCharts ==
    /\ t_pc = "start"
    /\ traffic_data' = SampleTraffic
    /\ t_out' = t_out \o <<"congestion_chart", "speed_chart", "vehicle_pie", "map">>
    /\ t_pc' = "uv_button"
    /\ UNCHANGED <<trigger, city, alert_threshold, response, gets>>
    /\ UNCHANGED uvvars

\* lines 195-199: requests.get returns a response or raises (no handler)
GetUVIndex ==
    /\ t_pc = "uv_button"
    /\ IF GetUVIndexPressed
       THEN /\ gets' = Append(gets, UVUrl)
            /\ \/ \E r \in Responses :
                     /\ response' = r
                     /\ t_pc' = "uv_result"
                     /\ UNCHANGED t_out
               \/ /\ response' = NoResponse
                  /\ t_pc' = "crashed"
                  /\ t_out' = Append(t_out, "exception")
       ELSE /\ t_pc' = "alert"
            /\ UNCHANGED <<gets, response, t_out>>
    /\ UNCHANGED <<trigger, city, alert_threshold, traffic_data>>
    /\ UNCHANGED uvvars

\* lines 200-204: response.json() and the subscripts raise on a body that is
\* not JSON or lacks the field (no handler)
ShowUVIndex ==
    /\ t_pc = "uv_result"
    /\ IF response.status = StatusOK
       THEN /\ response' = [response EXCEPT !.read = TRUE]
            /\ IF response.body_ok
               THEN /\ t_out' = Append(t_out, "uv_success")
                    /\ t_pc' = "alert"
               ELSE /\ t_out' = Append(t_out, "exception")
                    /\ t_pc' = "crashed"
       ELSE /\ t_out' = Append(t_out, "uv_error")
            /\ t_pc' = "alert"
            /\ UNCHANGED response
    /\ UNCHANGED <<trigger, city, alert_threshold, traffic_data, gets>>
    /\ UNCHANGED uvvars

\* lines 206-212
TrafficAlert ==
    /\ t_pc = "alert"
    /\ t_out' = Append(t_out, IF AnyAbove(traffic_data, alert_threshold)
                              THEN "congestion_warning" ELSE "flowing_smoothly")
    /\ t_pc' = "live_feed"
    /\ UNCHANGED <<trigger, city, alert_threshold, traffic_data, response, gets>>
    /\ UNCHANGED uvvars

\* lines 214-220
LiveFeed ==
    /\ t_pc = "live_feed"
    /\ t_out' = Append(t_out, "live_traffic")
    /\ t_pc' = "weather_get"
    /\ UNCHANGED <<trigger, city, alert_threshold, traffic_data, response, gets>>
    /\ UNCHANGED uvvars

\* lines 222-225: issued in every run
GetWeather ==
    /\ t_pc = "weather_get"
    /\ gets' = Append(gets, WeatherUrl)
    /\ \/ \E r \in Responses :
             /\ response' = r
             /\ t_pc' = "weather_result"
             /\ UNCHANGED t_out
       \/ /\ response' = NoResponse
          /\ t_pc' = "crashed"
          /\ t_out' = Append(t_out, "exception")
    /\ UNCHANGED <<trigger, city, alert_threshold, traffic_data>>
    /\ UNCHANGED uvvars

\* lines 226-232
ShowWeather ==
    /\ t_pc = "weather_result"
    /\ IF response.status = StatusOK
       THEN /\ response' = [response EXCEPT !.read = TRUE]
            /\ IF response.body_ok
               THEN /\ t_out' = Append(t_out, "weather_success")
                    /\ t_pc' = "banner"
               ELSE /\ t_out' = Append(t_out, "exception")
                    /\ t_pc' = "crashed"
       ELSE /\ t_out' = Append(t_out, "weather_error")
            /\ t_pc' = "banner"
            /\ UNCHANGED response
    /\ UNCHANGED <<trigger, city, alert_threshold, traffic_data, gets>>
    /\ UNCHANGED uvvars

\* line 234
Banner ==
    /\ t_pc = "banner"
    /\ t_out' = Append(t_out, "last_updated")
    /\ t_pc' = "done"
    /\ UNCHANGED <<trigger, city, alert_threshold, traffic_data, response, gets>>
    /\ UNCHANGED uvvars

TNext ==
    \/ PressGetUVIndex
    \/ MoveThreshold
    \/ EditCity
    \/ TrafficCharts
    \/ GetUVIndex
    \/ ShowUVIndex
    \/ TrafficAlert
    \/ LiveFeed
    \/ GetWeather
    \/ ShowWeather
    \/ Banner

----------------------------------------------------------------------------
\* The two scripts are separate programs: each specification runs one of
\* them and leaves the other one off.

UVOff ==
    /\ input_method = "Manual Input"
    /\ uv_data = DefaultText
    /\ uploaded_file = NoFile
    /\ download_clicked = FALSE
    /\ pc = "off"
    /\ data = NoData
    /\ stats = NoStats
    /\ pivot_data = <<>>
    /\ slider = NoSlider
    /\ filtered_data = <<>>
    /\ csv = [offered |-> FALSE]
    /\ out = <<>>

TrafficOff ==
    /\ t_pc = "off"
    /\ trigger = "load"
    /\ city = "San Francisco"
    /\ alert_threshold = SliderDefault
    /\ traffic_data = <<>>
    /\ response = NoResponse
    /\ gets = <<>>
    /\ t_out = <<>>

InitUV == UVInit /\ TrafficOff

SpecUV == InitUV /\ [][UVNext]_vars

InitTraffic == TInit /\ UVOff

SpecTraffic == InitTraffic /\ [][TNext]_vars
----------------------------------------------------------------------------
\* Properties

InOut(e)  == \E i \in 1..Len(out) : out[i] = e
InTOut(e) == \E i \in 1..Len(t_out) : t_out[i] = e
Count(seq, S) == Cardinality({i \in 1..Len(seq) : seq[i] \in S})

\* what the pipeline renders from a table
PipelineOutputs == {"preview", "stats", "line_chart", "bar_chart", "heatmap",
                    "sev_high", "sev_moderate", "sev_low", "filtered",
                    "download_button"}
SeverityEvents == {"sev_high", "sev_moderate", "sev_low"}
ErrorMessages == {"error_invalid_input", "error_schema", "error_reading_file",
                  "uv_error", "weather_error"}

\* the slider was left at (or put back to) its default, the full range
AtFullRange == slider # NoSlider /\ slider = SliderBounds(stats)

\* C1: with the range slider at its default full range, the filtered table
\* is the whole table: every row, in order.
FullRangeIsIdentity == AtFullRange => filtered_data = data.rows

\* C2: an uploaded table without "Date" or without "UV Index" gets the schema
\* error and the run stops there: the table was read, but nothing is rendered
\* from it; whatever the pipeline renders comes from a table that passed the
\* column check.
SchemaErrorHalts ==
    /\ ( /\ input_method = "Upload CSV"
         /\ uploaded_file.present
         /\ uploaded_file.readable
         /\ MissingColumns(uploaded_file.columns)
         /\ pc \notin {"sidebar", "process"} )
       => /\ pc = "stopped"
          /\ out = <<"upload_success", "error_schema">>
          /\ data.loaded
          /\ data.rows = uploaded_file.rows
          /\ stats = NoStats
          /\ pivot_data = <<>>
          /\ slider = NoSlider
          /\ filtered_data = <<>>
          /\ ~csv.offered
    /\ (Count(out, PipelineOutputs) > 0 /\ input_method = "Upload CSV")
       => /\ uploaded_file.present
          /\ uploaded_file.readable
          /\ {"Date", "UV Index"} \subseteq uploaded_file.columns

SchemaErrorWitness ==
    /\ pc = "stopped"
    /\ "UV Index" \notin uploaded_file.columns
    /\ Len(uploaded_file.rows) > 0
    /\ InOut("error_schema")

\* C3: a table with zero rows gets an EmptyDataError and no statistics: no
\* NaN mean, max or min is rendered.
EmptyTableIsRejected ==
    ( /\ data.loaded
      /\ Len(data.rows) = 0
      /\ pc \in {"charts", "heatmap", "insights", "filter", "download", "done", "crashed"} )
    => /\ InOut("error_empty_data")
       /\ ~InOut("stats")
       /\ stats = NoStats

\* C4: a fetch whose response has status 200 shows the success result; any
\* other status shows the failure message, leaves the body unread and does
\* not crash the run (UV-index fetch and weather fetch alike).
FetchSucceedsIffStatusOK ==
    /\ (response.arrived /\ t_pc \in {"alert", "crashed"} /\ gets = <<UVUrl>>)
       => IF response.status = StatusOK
          THEN InTOut("uv_success") /\ t_pc = "alert"
          ELSE InTOut("uv_error") /\ ~response.read /\ t_pc = "alert"
    /\ (response.arrived /\ t_pc \in {"banner", "crashed"} /\ Count(gets, {WeatherUrl}) = 1)
       => IF response.status = StatusOK
          THEN InTOut("weather_success") /\ t_pc = "banner"
          ELSE InTOut("weather_error") /\ ~response.read /\ t_pc = "banner"

\* C5 as claimed: a GET is issued only in a run caused by a press of the
\* fetch button, and exactly one in such a run.
OneGetPerButtonPress ==
    /\ trigger # "button" => gets = <<>>
    /\ (trigger = "button" /\ TFinished) => Len(gets) = 1

\* C5 as amended: the UV-index GET is issued only in a run caused by the
\* button press, at most once, and first; the weather GET is issued once in
\* every run that gets that far, whatever caused the run, so a completed run
\* has issued two GETs after a button press and one otherwise.
GetsPerRun ==
    /\ gets \in {<<>>, <<UVUrl>>, <<WeatherUrl>>, <<UVUrl, WeatherUrl>>}
    /\ Count(gets, {UVUrl}) > 0 => trigger = "button"
    /\ (trigger = "button" /\ t_pc \notin {"start", "uv_button"}) => Count(gets, {UVUrl}) = 1
    /\ t_pc \in {"weather_result", "banner", "done"} => Count(gets, {WeatherUrl}) = 1
    /\ t_pc = "done" => gets = IF trigger = "button" THEN <<UVUrl, WeatherUrl>>
                                                     ELSE <<WeatherUrl>>

GetsPerRunWitness ==
    /\ t_pc = "done"
    /\ trigger = "slider"
    /\ gets = <<WeatherUrl>>

\* C6: an error message is the last thing its run renders: nothing follows
\* it in the same run.
ErrorsAreTerminal ==
    /\ \A i \in 1..Len(out) : out[i] \in ErrorMessages => i = Len(out)
    /\ \A i \in 1..Len(t_out) : t_out[i] \in ErrorMessages => i = Len(t_out)

\* C7: a run renders at most one severity message, and once the insights
\* section has been rendered exactly one, fixed by the maximum of the table:
\* High iff max > 10, Moderate iff 7 < max <= 10, Low iff max <= 7.
IsMaxOf(m, rows) == /\ \E i \in 1..Len(rows) : rows[i].UV = m
                    /\ \A i \in 1..Len(rows) : rows[i].UV <= m

PastInsights == pc \in {"filter", "download"} \/ (pc = "done" /\ data.loaded)

SeverityByMax ==
    /\ Count(out, SeverityEvents) <= 1
    /\ Count(out, SeverityEvents) = 1 => PastInsights
    /\ PastInsights
       => /\ Count(out, SeverityEvents) = 1
          /\ ~stats.nan
          /\ IsMaxOf(stats.max, data.rows)
          /\ InOut("sev_high") <=> stats.max > HighThreshold * Unit
          /\ InOut("sev_moderate") <=> ( /\ stats.max > ModerateThreshold * Unit
                                         /\ stats.max <= HighThreshold * Unit )
          /\ InOut("sev_low") <=> stats.max <= ModerateThreshold * Unit

SeverityWitness ==
    /\ pc = "done"
    /\ data.loaded
    /\ stats.max = HighThreshold * Unit
    /\ InOut("sev_moderate")

\* C8: a text of numeric tokens gives a table with one row per token, in
\* token order, the i-th row (counting from 0) dated anchor + i days with
\* the i-th token's value, so each date is the previous one plus one day.
ManualTableShape ==
    ( /\ input_method = "Manual Input"
      /\ uv_data # <<>>
      /\ \A i \in 1..Len(uv_data) : uv_data[i].num
      /\ pc \notin {"sidebar", "process"} )
    => /\ data.loaded
       /\ Len(data.rows) = Len(uv_data)
       /\ \A i \in 1..Len(uv_data) :
             /\ data.rows[i].UV = uv_data[i].val
             /\ data.rows[i].Date = AnchorDate + (i - 1)
       /\ \A i \in 1..(Len(data.rows) - 1) :
             data.rows[i + 1].Date = data.rows[i].Date + 1

ManualTableWitness ==
    /\ input_method = "Manual Input"
    /\ pc = "done"
    /\ data.loaded
    /\ Len(data.rows) >= 3
    /\ data.rows[3].Date = AnchorDate + 2

\* C9: the filtered table holds exactly the rows with low <= value <= high,
\* in their original order; the table itself is still what the input gave,
\* and the run goes on whatever the result, empty or not.
InRange(v) == slider[1] * Unit <= v /\ v <= slider[2] * Unit
Kept       == {i \in 1..Len(data.rows) : InRange(data.rows[i].UV)}
KthKept(k) == CHOOSE i \in Kept : Cardinality({j \in Kept : j <= i}) = k
TableOfInput == IF input_method = "Manual Input"
                THEN ParseManual(uv_data).rows
                ELSE ToDatetime(uploaded_file.rows)

FilterIsExact ==
    slider # NoSlider
    => /\ pc \in {"download", "done"}
       /\ Len(filtered_data) = Cardinality(Kept)
       /\ \A k \in 1..Len(filtered_data) : filtered_data[k] = data.rows[KthKept(k)]
       /\ data.rows = TableOfInput

\* the scenario 3,5,7,9,11,8,6,4 with range [5,9]
FilterWitness ==
    /\ uv_data = DefaultText
    /\ slider = <<5, 9>>
    /\ pc = "done"
    /\ [i \in 1..Len(filtered_data) |-> filtered_data[i].UV]
         = <<5 * Unit, 7 * Unit, 9 * Unit, 8 * Unit, 6 * Unit>>

\* C10: every finished run shows exactly one of the congestion warning and
\* the "flowing smoothly" message, the warning iff some congestion level is
\* strictly above the threshold; the sample table is never changed.
AlertInEveryRun ==
    /\ t_pc \notin {"off", "start"} => traffic_data = SampleTraffic
    /\ TFinished
       => /\ Count(t_out, {"congestion_warning", "flowing_smoothly"}) = 1
          /\ InTOut("congestion_warning")
               <=> \E i \in 1..Len(SampleTraffic) :
                      SampleTraffic[i].Congestion > alert_threshold
====
